---- MODULE Spec2Model ----
(***************************************************************************)
(* Model of utils/training.py: trainModel (the epoch / phase / batch loop  *)
(* with best-weights bookkeeping), getOptimizer, getScheduler and          *)
(* getClassMapping.                                                        *)
(*                                                                         *)
(* Parameters of the network are abstracted to one integer "weights"       *)
(* value; an optimizer step replaces it by any value of Weights (possibly  *)
(* the same one).  model.state_dict() hands out references to the live     *)
(* parameters, so the model keeps a small heap: object "model" is the live *)
(* state dict, deepcopy() creates a separate object.  Metrics are exact    *)
(* fractions <<numerator, denominator>>.                                   *)
(***************************************************************************)
EXTENDS Integers, Sequences, FiniteSets, TLC

(* ---------------------------- bounds ----------------------------------- *)
MaxEpochs == 2
MaxBatches == 1
MaxW == 1
MaxCalls == 2

(* ------------------------- program constants --------------------------- *)
(* Names are sequences of characters, so that str.lower() is computed. *)
sgd == <<"s", "g", "d">>
rmsprop == <<"r", "m", "s", "p", "r", "o", "p">>
adam == <<"a", "d", "a", "m">>
adamw == <<"a", "d", "a", "m", "w">>
step == <<"s", "t", "e", "p">>
cosine == <<"c", "o", "s", "i", "n", "e">>
lbfgs == <<"l", "b", "f", "g", "s">>
plateau == <<"p", "l", "a", "t", "e", "a", "u">>

AVAILABLE_OPTIMIZER_LBFGS == {sgd, rmsprop, adam, adamw, lbfgs}
AVAILABLE_OPTIMIZER == {sgd, rmsprop, adam, adamw}
AVAILABLE_SCHEDULER == {step, cosine}
AVAILABLE_STANDARD_F1 == {"loss", "acc", "f1"}
AVAILABLE_STANDARD == {"loss", "acc"}

None == <<>>
NoRef == "None"
Weights == 0..MaxW
Standards == {"loss", "acc", "f1"}

(* What one batch contributes: the batch size (inputs.size(0)), the mean   *)
(* loss of the batch (loss.item()) and the number of correct predictions.  *)
(* Loaders yield one sample per batch.                                     *)
TrainOutcomes ==
    { [size |-> 1, loss |-> 0, corrects |-> 1],
      [size |-> 1, loss |-> 1, corrects |-> 0] }
ValOutcomes ==
    { [size |-> 1, loss |-> 0, corrects |-> 1],
      [size |-> 1, loss |-> 1, corrects |-> 0],
      [size |-> 1, loss |-> 1, corrects |-> 1] }
Outcomes(p) == IF p = "train" THEN TrainOutcomes ELSE ValOutcomes

(* Characters whose str.lower() differs from themselves.  "I_dot" is       *)
(* U+0130, whose lower-case form is the two characters "i" + U+0307.       *)
LowerOf ==
    [S |-> "s", G |-> "g", D |-> "d", R |-> "r", M |-> "m", P |-> "p",
     O |-> "o", A |-> "a", W |-> "w", T |-> "t", E |-> "e", C |-> "c",
     I |-> "i", N |-> "n"]

(* Names handed to the factories *)
OptimizerNames ==
    { sgd, <<"S", "G", "D">>, <<"S", "g", "d">>,
      rmsprop, <<"R", "M", "S", "p", "r", "o", "p">>,
      adam, <<"A", "d", "a", "m">>,
      adamw, <<"A", "d", "a", "m", "W">>,
      lbfgs, <<"a", "d", "a">>, <<"s", "g", "d", " ">>, <<>>, step }
SchedulerNames ==
    { step, <<"S", "t", "e", "p">>, <<"S", "T", "E", "P">>,
      cosine, <<"C", "o", "s", "i", "n", "e">>,
      <<"C", "O", "S", "I", "N", "E">>,
      <<"C", "O", "S", "I_dot", "N", "E">>,
      plateau, <<"s", "t", "e", "p", "s">>, <<>>, sgd }

(* Arguments of getClassMapping: dataset.class_to_idx tables as sets of    *)
(* <<class name, index>> pairs, and save paths.                            *)
Tables == { {<<"cat", 0>>, <<"dog", 1>>}, {<<"ant", 0>>}, {} }
Paths == {"a.yml", "b.yml"}
NoPath == "None"

VARIABLES
    pc, error,
    standard, numEpochs, scheduler, nBatches,
    epoch, phase, batchIdx, runningLoss, epochCorrects,
    heap, bestWeights, lastWeights, bestRecord, trainLoss, trainAcc,
    optSteps, schedSteps, valBatches,
    weightsAfterTrain, weightsAtVal, bestTakenW, bestTakenEpoch, lastTakenW,
    calls, constructed,
    classToIdx, storage, mapCalls, mapResult, mapArgs, writes

trainVars == <<pc, error, standard, numEpochs, scheduler, nBatches,
               epoch, phase, batchIdx, runningLoss, epochCorrects,
               heap, bestWeights, lastWeights, bestRecord, trainLoss, trainAcc,
               optSteps, schedSteps, valBatches,
               weightsAfterTrain, weightsAtVal, bestTakenW, bestTakenEpoch,
               lastTakenW>>
factoryVars == <<calls, constructed>>
mappingVars == <<classToIdx, storage, mapCalls, mapResult, mapArgs, writes>>
vars == <<trainVars, factoryVars, mappingVars>>

(* ------------------------- pure helpers -------------------------------- *)
(* a / n as an exact fraction *)
Divide(a, n) == <<a, n>>
(* x < y on fractions with positive denominators *)
Less(x, y) == x[1] * y[2] < y[1] * x[2]
LessEq(x, y) == x[1] * y[2] <= y[1] * x[2]

(* len(dataloaders[phase].dataset): every sample is in exactly one batch   *)
DatasetLen(p) == nBatches[p]

(* deepcopy(model.state_dict()): the reference the caller gets; a copy is  *)
(* a fresh object, an alias would be the live state dict itself.           *)
ShallowRef(slot) == "model"
Deepcopy(slot) == slot
(* the heap after the copy has been materialised in object slot *)
HeapAfterCopy(h, slot) == (slot :> h["model"]) @@ h

(* `if phase == 'train': loss.backward(); optimizer.step()` *)
StepsOptimizerAlways(p) == TRUE
StepsOptimizer(p) == p = "train"

(* `if scheduler and phase == "train"` *)
SchedulerStepsAnyPhase(s, p) == s
SchedulerSteps(s, p) == s /\ p = "train"

(* lines 68-72: the first validation phase seeds bestRecord *)
SeedRecord(br, std, epochLoss, epochAcc) ==
    IF br = None
    THEN IF std = "loss" THEN epochLoss
         ELSE IF std = "acc" THEN epochAcc
         ELSE br
    ELSE br

(* lines 75 and 80: the comparison that triggers a new record *)
IsNewRecordOrTie(br, std, epochLoss, epochAcc) ==
    \/ std = "loss" /\ LessEq(epochLoss, br)
    \/ std = "acc" /\ LessEq(br, epochAcc)
IsNewRecord(br, std, epochLoss, epochAcc) ==
    \/ std = "loss" /\ Less(epochLoss, br)
    \/ std = "acc" /\ Less(br, epochAcc)

(* lines 86-87: trainAcc[phase].append(...), trainLoss[phase].append(...)  *)
AppendOnRecordOnly(hist, p, v, improved) ==
    IF p = "val" /\ ~improved THEN hist
    ELSE [hist EXCEPT ![p] = Append(@, v)]
AppendHistory(hist, p, v, improved) == [hist EXCEPT ![p] = Append(@, v)]

(* ------------------------------ Init ----------------------------------- *)
TrainInit ==
    /\ error = "none"
    /\ standard \in Standards
    /\ numEpochs \in 0..MaxEpochs
    /\ scheduler \in BOOLEAN
    /\ nBatches \in [{"train", "val"} -> 1..MaxBatches]
    /\ epoch = 0
    /\ phase = "train"
    /\ batchIdx = 0
    /\ runningLoss = 0
    /\ epochCorrects = 0
    /\ heap = [model |-> 0]
    /\ bestWeights = NoRef
    /\ lastWeights = NoRef
    /\ bestRecord = None
    /\ trainLoss = [train |-> <<>>, val |-> <<>>]
    /\ trainAcc = [train |-> <<>>, val |-> <<>>]
    /\ optSteps = 0
    /\ schedSteps = 0
    /\ valBatches = 0
    /\ weightsAfterTrain = <<>>
    /\ weightsAtVal = <<>>
    /\ bestTakenW = 0
    /\ bestTakenEpoch = 0
    /\ lastTakenW = 0

TrainIdle ==
    /\ TrainInit
    /\ standard = "loss"
    /\ numEpochs = 0
    /\ ~scheduler
    /\ nBatches = [train |-> 1, val |-> 1]

FactoryInit ==
    /\ calls = <<>>
    /\ constructed = 0

MappingInit ==
    /\ classToIdx = {}
    /\ storage = [p \in Paths |-> {}]
    /\ mapCalls = 0
    /\ mapResult = [kind |-> "none", value |-> {}]
    /\ mapArgs = [dataset |-> {}, savepath |-> NoPath, save |-> FALSE]
    /\ writes = 0

Init ==
    /\ pc = "init"
    /\ TrainInit /\ FactoryInit /\ MappingInit

(* --------------------------- trainModel -------------------------------- *)
(* lines 16-17: reject an unknown standard *)
RaiseInvalidStandard ==
    /\ pc = "init"
    /\ standard \notin AVAILABLE_STANDARD
    /\ pc' = "raised"
    /\ error' = "NotImplementedError"
    /\ UNCHANGED <<standard, numEpochs, scheduler, nBatches, epoch, phase,
                   batchIdx, runningLoss, epochCorrects, heap, bestWeights,
                   lastWeights, bestRecord, trainLoss, trainAcc, optSteps,
                   schedSteps, valBatches, weightsAfterTrain, weightsAtVal,
                   bestTakenW, bestTakenEpoch, lastTakenW>>
    /\ UNCHANGED <<factoryVars, mappingVars>>

(* lines 18-27: set up, take the initial snapshot, enter the epoch loop *)
Start ==
    /\ pc = "init"
    /\ standard \in AVAILABLE_STANDARD
    /\ heap' = HeapAfterCopy(heap, "best")
    /\ bestWeights' = Deepcopy("best")
    /\ bestTakenW' = heap["model"]
    /\ bestTakenEpoch' = 0
    /\ trainLoss' = [train |-> <<>>, val |-> <<>>]
    /\ trainAcc' = [train |-> <<>>, val |-> <<>>]
    /\ bestRecord' = None
    /\ IF numEpochs >= 1
       THEN /\ pc' = "batch"
            /\ epoch' = 1
       ELSE /\ pc' = "finish"
            /\ epoch' = 0
    /\ phase' = "train"
    /\ batchIdx' = 0
    /\ runningLoss' = 0
    /\ epochCorrects' = 0
    /\ UNCHANGED <<error, standard, numEpochs, scheduler, nBatches,
                   lastWeights, optSteps, schedSteps, valBatches,
                   weightsAfterTrain, weightsAtVal, lastTakenW>>
    /\ UNCHANGED <<factoryVars, mappingVars>>

(* lines 42-58: one batch of the current phase *)
BatchStep(p) ==
    /\ pc = "batch"
    /\ phase = p
    /\ batchIdx < nBatches[p]
    /\ \E o \in Outcomes(p),
          w \in (IF StepsOptimizer(p) THEN Weights ELSE {heap["model"]}) :
          /\ heap' = [heap EXCEPT !["model"] = w]
          /\ runningLoss' = runningLoss + o.loss * o.size
          /\ epochCorrects' = epochCorrects + o.corrects
    /\ optSteps' = IF StepsOptimizer(p) THEN optSteps + 1 ELSE optSteps
    /\ valBatches' = IF p = "val" THEN valBatches + 1 ELSE valBatches
    /\ batchIdx' = batchIdx + 1
    /\ UNCHANGED <<pc, error, standard, numEpochs, scheduler, nBatches, epoch,
                   phase, bestWeights, lastWeights, bestRecord, trainLoss,
                   trainAcc, schedSteps, weightsAfterTrain, weightsAtVal,
                   bestTakenW, bestTakenEpoch, lastTakenW>>
    /\ UNCHANGED <<factoryVars, mappingVars>>

TrainBatch == BatchStep("train")
ValBatch == BatchStep("val")

(* lines 60-88: the end of a phase, after its batch loop *)
EndPhase(p) ==
    /\ pc = "batch"
    /\ phase = p
    /\ batchIdx = nBatches[p]
    /\ LET epochLoss == Divide(runningLoss, DatasetLen(p))
           epochAcc == Divide(epochCorrects, DatasetLen(p))
           seeded == IF p = "val"
                     THEN SeedRecord(bestRecord, standard, epochLoss, epochAcc)
                     ELSE bestRecord
           improved == p = "val" /\ IsNewRecord(seeded, standard, epochLoss, epochAcc)
       IN /\ schedSteps' = IF SchedulerSteps(scheduler, p)
                           THEN schedSteps + 1 ELSE schedSteps
          /\ IF improved
             THEN /\ bestRecord' = IF standard = "loss" THEN epochLoss ELSE epochAcc
                  /\ heap' = HeapAfterCopy(heap, "best")
                  /\ bestWeights' = Deepcopy("best")
                  /\ bestTakenW' = heap["model"]
                  /\ bestTakenEpoch' = epoch
             ELSE /\ bestRecord' = seeded
                  /\ UNCHANGED <<heap, bestWeights, bestTakenW, bestTakenEpoch>>
          /\ trainAcc' = AppendHistory(trainAcc, p, epochAcc, improved)
          /\ trainLoss' = AppendHistory(trainLoss, p, epochLoss, improved)
    /\ IF p = "train"
       THEN /\ weightsAfterTrain' = Append(weightsAfterTrain, heap["model"])
            /\ UNCHANGED weightsAtVal
       ELSE /\ weightsAtVal' = Append(weightsAtVal, heap["model"])
            /\ UNCHANGED weightsAfterTrain
    /\ IF p = "train"
       THEN /\ phase' = "val"
            /\ UNCHANGED <<pc, epoch>>
       ELSE /\ phase' = "train"
            /\ IF epoch < numEpochs
               THEN /\ epoch' = epoch + 1
                    /\ UNCHANGED pc
               ELSE /\ pc' = "finish"
                    /\ UNCHANGED epoch
    /\ batchIdx' = 0
    /\ runningLoss' = 0
    /\ epochCorrects' = 0
    /\ UNCHANGED <<error, standard, numEpochs, scheduler, nBatches,
                   lastWeights, optSteps, valBatches, lastTakenW>>
    /\ UNCHANGED <<factoryVars, mappingVars>>

EndTrainPhase == EndPhase("train")
EndValPhase == EndPhase("val")

(* lines 90-96: the last snapshot, the summary line and the return.  The   *)
(* summary formats bestRecord with `:4f`, which raises TypeError on None.  *)
Finish ==
    /\ pc = "finish"
    /\ heap' = HeapAfterCopy(heap, "last")
    /\ lastWeights' = Deepcopy("last")
    /\ lastTakenW' = heap["model"]
    /\ IF bestRecord = None
       THEN /\ pc' = "raised"
            /\ error' = "TypeError"
       ELSE /\ pc' = "done"
            /\ UNCHANGED error
    /\ UNCHANGED <<standard, numEpochs, scheduler, nBatches, epoch, phase,
                   batchIdx, runningLoss, epochCorrects, bestWeights,
                   bestRecord, trainLoss, trainAcc, optSteps, schedSteps,
                   valBatches, weightsAfterTrain, weightsAtVal, bestTakenW,
                   bestTakenEpoch>>
    /\ UNCHANGED <<factoryVars, mappingVars>>

Next ==
    \/ RaiseInvalidStandard
    \/ Start
    \/ TrainBatch
    \/ ValBatch
    \/ EndTrainPhase
    \/ EndValPhase
    \/ Finish

Spec == Init /\ [][Next]_vars

(* --------------------- getOptimizer / getScheduler --------------------- *)
(* str.lower() of one character, as a sequence of characters *)
LowerChar(c) ==
    IF c \in DOMAIN LowerOf THEN <<LowerOf[c]>>
    ELSE IF c = "I_dot" THEN <<"i", "dot_above">>
    ELSE <<c>>

RECURSIVE Lower(_)
Lower(s) == IF s = <<>> THEN <<>> ELSE LowerChar(Head(s)) \o Lower(Tail(s))

Raised(err) == [kind |-> "raised", value |-> err, built |-> 0]
Built(obj) == [kind |-> "returned", value |-> obj, built |-> 1]
ReturnedNone == [kind |-> "returned", value |-> "None", built |-> 0]

(* lines 99-126 *)
GetOptimizer(name) ==
    IF Lower(name) \notin AVAILABLE_OPTIMIZER THEN Raised("NotImplementedError")
    ELSE IF Lower(name) = sgd THEN Built("SGD")
    ELSE IF Lower(name) = rmsprop THEN Built("RMSprop")
    ELSE IF Lower(name) = adam THEN Built("Adam")
    ELSE IF Lower(name) = adamw THEN Built("AdamW")
    ELSE ReturnedNone

(* lines 129-141 *)
GetScheduler(name) ==
    IF Lower(name) \notin AVAILABLE_SCHEDULER THEN Raised("NotImplementedError")
    ELSE IF Lower(name) = step THEN Built("StepLR")
    ELSE IF Lower(name) = cosine THEN Built("CosineAnnealingLR")
    ELSE ReturnedNone

Logged(fn, name, r) ==
    [fn |-> fn, name |-> name, kind |-> r.kind, value |-> r.value,
     built |-> r.built]

CallGetOptimizer ==
    /\ Len(calls) < MaxCalls
    /\ \E name \in OptimizerNames :
          /\ calls' = Append(calls, Logged("getOptimizer", name, GetOptimizer(name)))
          /\ constructed' = constructed + GetOptimizer(name).built
    /\ UNCHANGED <<trainVars, mappingVars>>

CallGetScheduler ==
    /\ Len(calls) < MaxCalls
    /\ \E name \in SchedulerNames :
          /\ calls' = Append(calls, Logged("getScheduler", name, GetScheduler(name)))
          /\ constructed' = constructed + GetScheduler(name).built
    /\ UNCHANGED <<trainVars, mappingVars>>

FactorySpecInit ==
    /\ pc = "off"
    /\ TrainIdle /\ FactoryInit /\ MappingInit

FactoryNext == CallGetOptimizer \/ CallGetScheduler

FactorySpec == FactorySpecInit /\ [][FactoryNext]_vars

(* --------------------------- getClassMapping --------------------------- *)
(* utils/common.py saveDictAsYml: writes the dict to the file at path *)
SaveDictAsYml(st, path, dict) == [st EXCEPT ![path] = {dict}]

(* lines 144-151; a variant that opens the destination before the check *)
GetClassMappingWriteFirst(dataset, savepath, save, st) ==
    IF save
    THEN IF savepath = NoPath
         THEN [kind |-> "ValueError", value |-> {}, storage |-> st, writes |-> 1]
         ELSE [kind |-> "returned", value |-> dataset,
               storage |-> SaveDictAsYml(st, savepath, dataset), writes |-> 1]
    ELSE [kind |-> "returned", value |-> dataset, storage |-> st, writes |-> 0]
GetClassMapping(dataset, savepath, save, st) ==
    IF save
    THEN IF savepath = NoPath
         THEN [kind |-> "ValueError", value |-> {}, storage |-> st, writes |-> 0]
         ELSE [kind |-> "returned", value |-> dataset,
               storage |-> SaveDictAsYml(st, savepath, dataset), writes |-> 1]
    ELSE [kind |-> "returned", value |-> dataset, storage |-> st, writes |-> 0]

CallGetClassMapping ==
    /\ mapCalls < MaxCalls
    /\ \E d \in Tables, sp \in Paths \cup {NoPath}, sv \in BOOLEAN :
          LET r == GetClassMapping(d, sp, sv, storage)
          IN /\ mapResult' = [kind |-> r.kind, value |-> r.value]
             /\ storage' = r.storage
             /\ writes' = writes + r.writes
             /\ mapArgs' = [dataset |-> d, savepath |-> sp, save |-> sv]
             /\ classToIdx' = d
    /\ mapCalls' = mapCalls + 1
    /\ UNCHANGED <<trainVars, factoryVars>>

MappingSpecInit ==
    /\ pc = "off"
    /\ TrainIdle /\ FactoryInit /\ MappingInit

MappingNext == CallGetClassMapping

MappingSpec == MappingSpecInit /\ [][MappingNext]_vars

(* ============================ properties =============================== *)
(* the validation metric of epoch e that the standard selects *)
ValMetric(e) == IF standard = "loss" THEN trainLoss["val"][e] ELSE trainAcc["val"][e]
(* a is strictly better than b in the direction of the standard *)
StrictlyBetter(a, b) == IF standard = "loss" THEN Less(a, b) ELSE Less(b, a)
(* the earliest epoch whose validation metric no epoch beats *)
BestEpoch ==
    CHOOSE e \in 1..numEpochs :
        /\ \A f \in 1..numEpochs : ~StrictlyBetter(ValMetric(f), ValMetric(e))
        /\ \A f \in 1..(e - 1) : StrictlyBetter(ValMetric(e), ValMetric(f))
Returned == pc = "done"

(* C1: when no validation phase after the first strictly improves, the    *)
(* returned bestWeights are the model's weights at the first validation   *)
(* phase (the weights after epoch 1).                                      *)
C1_BaselineIsEpoch1 ==
    (Returned /\ \A e \in 2..numEpochs : ~StrictlyBetter(ValMetric(e), ValMetric(1)))
        => heap[bestWeights] = weightsAtVal[1]

(* C2: the returned bestWeights are the model's weights at the validation *)
(* phase of the earliest epoch with the best validation metric.           *)
C2_BestIsArgBest ==
    Returned => heap[bestWeights] = weightsAtVal[BestEpoch]

(* C3: a validation phase after the first whose metric does not strictly  *)
(* improve on the best metric leaves the best metric and the best-weight  *)
(* snapshot unchanged; when either changes, the metric strictly improved  *)
(* and the new best metric is that epoch's metric.                         *)
C3_LaterValidation ==
    /\ Len(trainLoss["val"]) >= 1
    /\ Len(trainLoss'["val"]) = Len(trainLoss["val"]) + 1
C3_NewMetric ==
    IF standard = "loss"
    THEN trainLoss'["val"][Len(trainLoss'["val"])]
    ELSE trainAcc'["val"][Len(trainAcc'["val"])]
C3_SnapshotUnchanged ==
    /\ bestWeights' = bestWeights
    /\ heap'[bestWeights'] = heap[bestWeights]
    /\ bestTakenEpoch' = bestTakenEpoch
C3_Step ==
    C3_LaterValidation =>
        IF StrictlyBetter(C3_NewMetric, bestRecord)
        THEN /\ bestRecord' = C3_NewMetric
             /\ heap'[bestWeights'] = heap["model"]
             /\ bestTakenEpoch' = epoch
        ELSE bestRecord' = bestRecord /\ C3_SnapshotUnchanged
C3_StrictImprovementOnly == [][C3_Step]_vars
(* a second validation phase that tied or was worse, with live weights    *)
(* that differ from the snapshot                                           *)
C3_Witness ==
    /\ Len(trainLoss["val"]) >= 2
    /\ ~StrictlyBetter(ValMetric(2), ValMetric(1))
    /\ weightsAtVal[2] # heap[bestWeights]
    /\ bestRecord = ValMetric(1)

(* C4: every phase end appends exactly one entry (that epoch's loss and   *)
(* accuracy) at position epoch of that phase's histories and leaves the   *)
(* other entries alone; a returned run has numEpochs entries everywhere.  *)
C4_Lengths(hist) ==
    /\ pc = "batch" =>
          /\ Len(hist["train"]) = (IF phase = "train" THEN epoch - 1 ELSE epoch)
          /\ Len(hist["val"]) = epoch - 1
    /\ Returned =>
          /\ numEpochs >= 1
          /\ Len(hist["train"]) = numEpochs
          /\ Len(hist["val"]) = numEpochs
C4_Appends(old, new, acc) ==
    \A p \in {"train", "val"} :
        \/ new[p] = old[p]
        \/ /\ phase = p
           /\ batchIdx = nBatches[p]
           /\ Len(new[p]) = epoch
           /\ SubSeq(new[p], 1, epoch - 1) = old[p]
           /\ new[p][epoch] = <<acc, nBatches[p]>>
C4_HistoryPerEpoch ==
    /\ [](C4_Lengths(trainLoss) /\ C4_Lengths(trainAcc))
    /\ [][/\ C4_Appends(trainLoss, trainLoss', runningLoss)
          /\ C4_Appends(trainAcc, trainAcc', epochCorrects)]_vars
(* a returned run of two epochs whose second epoch did not improve *)
C4_Witness ==
    /\ Returned
    /\ numEpochs = 2
    /\ Len(trainLoss["val"]) = 2
    /\ Len(trainAcc["train"]) = 2
    /\ bestTakenEpoch # 2

(* C5: the returned lastWeights, and the live model, hold the weights the *)
(* model had at the end of the final epoch's training phase.              *)
C5_LastWeights ==
    Returned =>
        /\ heap[lastWeights] = weightsAfterTrain[numEpochs]
        /\ heap["model"] = weightsAfterTrain[numEpochs]
        /\ weightsAtVal = weightsAfterTrain
(* returned, and the final epoch was not the best one *)
C5_Witness ==
    /\ Returned
    /\ numEpochs >= 2
    /\ bestTakenEpoch # numEpochs
    /\ heap[lastWeights] # heap[bestWeights]
    /\ valBatches > 0

(* C6: a standard outside {loss, acc} raises NotImplementedError with no  *)
(* epoch entered, no batch consumed, no optimizer or scheduler step, the  *)
(* model untouched and no history entry.                                   *)
C6_FailFast ==
    (standard \notin {"loss", "acc"} /\ pc # "init") =>
        /\ pc = "raised"
        /\ error = "NotImplementedError"
        /\ epoch = 0 /\ batchIdx = 0
        /\ optSteps = 0 /\ schedSteps = 0 /\ valBatches = 0
        /\ heap = [model |-> 0]
        /\ bestWeights = NoRef /\ lastWeights = NoRef
        /\ trainLoss = [train |-> <<>>, val |-> <<>>]
        /\ trainAcc = [train |-> <<>>, val |-> <<>>]
C6_Witness ==
    /\ standard = "f1"
    /\ numEpochs >= 1
    /\ pc = "raised"
    /\ error = "NotImplementedError"

(* C7: the scheduler is stepped once per epoch, at the end of the train   *)
(* phase: after all optimizer steps of the epoch, before any validation   *)
(* batch of the epoch; never in a validation phase; never when absent.    *)
C7_Counts ==
    /\ ~scheduler => schedSteps = 0
    /\ (scheduler /\ pc = "batch") =>
          schedSteps = (IF phase = "train" THEN epoch - 1 ELSE epoch)
    /\ (scheduler /\ Returned) => schedSteps = numEpochs
C7_Step ==
    schedSteps' # schedSteps =>
        /\ scheduler
        /\ schedSteps' = schedSteps + 1
        /\ phase = "train" /\ phase' = "val"
        /\ optSteps = epoch * nBatches["train"]
        /\ optSteps' = optSteps
        /\ valBatches = (epoch - 1) * nBatches["val"]
        /\ valBatches' = valBatches
C7_SchedulerOncePerEpoch == []C7_Counts /\ [][C7_Step]_vars
C7_Witness ==
    /\ Returned
    /\ scheduler
    /\ numEpochs = 2
    /\ schedSteps = 2

SameChar(a, b) ==
    \/ a = b
    \/ a \in DOMAIN LowerOf /\ LowerOf[a] = b
    \/ b \in DOMAIN LowerOf /\ LowerOf[b] = a
SameIgnoringCase(x, y) ==
    /\ Len(x) = Len(y)
    /\ \A i \in 1..Len(x) : SameChar(x[i], y[i])
SupportedNames(fn) ==
    IF fn = "getOptimizer" THEN {sgd, rmsprop, adam, adamw} ELSE {step, cosine}
C9_CallOk(c) ==
    IF \E n \in SupportedNames(c.fn) : SameIgnoringCase(c.name, n)
    THEN c.kind = "returned" /\ c.value # "None" /\ c.built = 1
    ELSE c.kind = "raised" /\ c.value = "NotImplementedError" /\ c.built = 0
C9_Factories == \A i \in DOMAIN calls : C9_CallOk(calls[i])
(* an upper-case supported name was accepted and an unknown one rejected *)
C9_Witness ==
    /\ Len(calls) = 2
    /\ calls[1].name = <<"C", "O", "S", "I", "N", "E">>
    /\ calls[1].value = "CosineAnnealingLR"
    /\ calls[2].name = lbfgs
    /\ calls[2].kind = "raised"
    /\ constructed = 1

(* C10: save=True without a path raises ValueError and writes nothing;    *)
(* save=False never writes; a returned mapping is the dataset's table.    *)
C10_Step ==
    mapCalls' # mapCalls =>
        /\ (mapArgs'.save /\ mapArgs'.savepath = NoPath) =>
              /\ mapResult'.kind = "ValueError"
              /\ storage' = storage
              /\ writes' = writes
        /\ ~mapArgs'.save =>
              /\ mapResult'.kind = "returned"
              /\ storage' = storage
              /\ writes' = writes
        /\ mapResult'.kind = "returned" =>
              /\ mapResult'.value = mapArgs'.dataset
              /\ classToIdx' = mapArgs'.dataset
C10_ClassMapping == [][C10_Step]_vars
(* a save without a path was rejected after an earlier successful save *)
C10_Witness ==
    /\ mapCalls = 2
    /\ mapArgs.save /\ mapArgs.savepath = NoPath
    /\ mapResult.kind = "ValueError"
    /\ writes = 1
    /\ storage["a.yml"] # {}

====
